---- MODULE Spec2Model ----
(***************************************************************************)
(* Versioned graph store of the Moon Modeler backend:                      *)
(* ProjectsService.createProject / saveDiagram / restoreVersion over the   *)
(* project and projectVersion tables, each service call a sequence of      *)
(* separately awaited database round trips that other calls interleave.    *)
(***************************************************************************)
EXTENDS Integers, Sequences, FiniteSets, TLC

(***************************************************************************)
(* Bounds of the model.                                                    *)
(***************************************************************************)
\* successful saves allowed per project when calls race (caps Project.version)
MaxVersion == 2
\* successful saves allowed per project when calls run one after another
MaxSeqVersion == 3
\* successful saves allowed per project while the validator's inputs vary
MaxInputSaves == 1
\* levels of objects and arrays a denylisted key is nested under
MaxDepth == 2
\* collections the introspected database holds at most
MaxCollections == 3
\* collections of the databases whose relationships are inferred
MaxInferCollections == 2
\* collections of the databases whose layout is observed
MaxLayoutCollections == 7

Projects == {"p1", "p2"}
\* the project racing calls work on
RaceProjects == {"p1"}
Callers == {"c1", "c2"}

(***************************************************************************)
(* JSON values: objects keep the insertion order of their keys.            *)
(***************************************************************************)
JNull == [t |-> "null"]
JStr(s) == [t |-> "str", s |-> s]
JNum(n) == [t |-> "num", n |-> n]
JBool(b) == [t |-> "bool", b |-> b]
JArr(items) == [t |-> "arr", items |-> items]
JObj(kv) == [t |-> "obj", kv |-> kv]

\* { nodes: [], edges: [] }: the content createProject stores
EmptyDiagram == JObj(<< <<"nodes", JArr(<<>>)>>, <<"edges", JArr(<<>>)>> >>)
\* { nodes: [{ id: '1' }], edges: [] }
DiagramOne == JObj(<< <<"nodes", JArr(<<JObj(<< <<"id", JStr("1")>> >>)>>)>>,
                      <<"edges", JArr(<<>>)>> >>)
\* { nodes: [], edges: [], constructor: {} }: rejected by validateDiagram
DiagramBanned == JObj(<< <<"nodes", JArr(<<>>)>>, <<"edges", JArr(<<>>)>>,
                         <<"constructor", JObj(<<>>)>> >>)

\* { nodes: [{ id: '2', data: { name: 'version_2' } }], edges: [] }
DiagramTwo ==
    JObj(<< <<"nodes", JArr(<<JObj(<< <<"id", JStr("2")>>,
                <<"data", JObj(<< <<"name", JStr("version_2")>> >>)>> >>)>>)>>,
            <<"edges", JArr(<<>>)>> >>)

\* { edges: [], nodes: [] }: the members of EmptyDiagram in the other order
EdgesFirst == JObj(<< <<"edges", JArr(<<>>)>>, <<"nodes", JArr(<<>>)>> >>)
\* { nodes: [{ id: '__proto__' }], edges: [] }: a denylisted name as a value
DiagramProtoValue ==
    JObj(<< <<"nodes", JArr(<<JObj(<< <<"id", JStr("__proto__")>> >>)>>)>>,
            <<"edges", JArr(<<>>)>> >>)

\* contents a caller of saveDiagram passes
SaveContents == {EmptyDiagram, DiagramOne, DiagramBanned}
SeqContents == {EmptyDiagram, DiagramOne, DiagramTwo, DiagramBanned}

RECURSIVE Stringify(_)
RECURSIVE StringifyItems(_)
RECURSIVE StringifyMembers(_)
\* JSON.stringify, as the sequence of its tokens
Stringify(v) ==
    CASE v.t = "null" -> <<"null">>
      [] v.t = "str"  -> <<"\"", v.s, "\"">>
      [] v.t = "num"  -> <<ToString(v.n)>>
      [] v.t = "bool" -> <<IF v.b THEN "true" ELSE "false">>
      [] v.t = "arr"  -> <<"[">> \o StringifyItems(v.items) \o <<"]">>
      [] v.t = "obj"  -> <<"{">> \o StringifyMembers(v.kv) \o <<"}">>
StringifyItems(items) ==
    IF items = <<>> THEN <<>>
    ELSE Stringify(Head(items))
         \o (IF Len(items) > 1 THEN <<",">> ELSE <<>>)
         \o StringifyItems(Tail(items))
StringifyMembers(kv) ==
    IF kv = <<>> THEN <<>>
    ELSE <<"\"", Head(kv)[1], "\"", ":">> \o Stringify(Head(kv)[2])
         \o (IF Len(kv) > 1 THEN <<",">> ELSE <<>>)
         \o StringifyMembers(Tail(kv))

\* crypto sha256 digest: collision free on the serialisations of the model
Sha256(s) == <<"sha256">> \o s

\* JavaScript truthiness of a JSON value
Truthy(v) ==
    ~(v = JNull \/ v = JStr("") \/ v = JNum(0) \/ v = JBool(FALSE))

\* ProjectsService.createHash: sha256 of JSON.stringify(data || {})
createHash(data) == Sha256(Stringify(IF Truthy(data) THEN data ELSE JObj(<<>>)))

BannedKeys == {"__proto__", "constructor", "prototype"}

RECURSIVE scanForMaliciousKeysInObjects(_)
\* mutant: the scan descends into object members only, never into arrays
scanForMaliciousKeysInObjects(obj) ==
    CASE obj.t = "obj" ->
           \E i \in 1..Len(obj.kv) :
               \/ obj.kv[i][1] \in BannedKeys
               \/ obj.kv[i][2].t = "obj"
                    /\ scanForMaliciousKeysInObjects(obj.kv[i][2])
      [] OTHER -> FALSE

RECURSIVE scanForMaliciousKeys(_)
\* TRUE when the recursive scan throws 'Malicious key detected'
scanForMaliciousKeys(obj) ==
    CASE obj.t = "obj" ->
           \E i \in 1..Len(obj.kv) :
               \/ obj.kv[i][1] \in BannedKeys
               \/ scanForMaliciousKeys(obj.kv[i][2])
      [] obj.t = "arr" ->
           \E i \in 1..Len(obj.items) : scanForMaliciousKeys(obj.items[i])
      [] OTHER -> FALSE

\* value of json[key] (the last member of that name), JNull standing for undefined
Member(json, key) ==
    LET idx == {i \in 1..Len(json.kv) : json.kv[i][1] = key}
    IN IF idx = {} THEN JNull
       ELSE json.kv[CHOOSE i \in idx : \A j \in idx : j <= i][2]

\* values that are not arrays, falsy and truthy ones
NonArrayValues ==
    {JNull, JBool(FALSE), JBool(TRUE), JNum(0), JNum(1), JStr(""),
     JStr("not-an-array"), JObj(<<>>), JObj(<< <<"invalid", JBool(TRUE)>> >>)}

\* contents whose root is not an object
NonObjectRoots ==
    {JNull, JBool(FALSE), JBool(TRUE), JNum(0), JNum(1), JStr(""),
     JStr("not-an-object"), JArr(<<>>), JArr(<<EmptyDiagram>>)}

\* object contents whose nodes or edges member is not an array
NonArrayFields ==
    {JObj(<< <<"nodes", x>>, <<"edges", JArr(<<>>)>> >>) : x \in NonArrayValues}
    \cup {JObj(<< <<"nodes", JArr(<<>>)>>, <<"edges", x>> >>) :
             x \in NonArrayValues}

\* the ways to nest a value: under a member of an object or in an array
NestPaths == UNION {[1..n -> {"obj", "arr"}] : n \in 0..MaxDepth}

RECURSIVE Nest(_, _, _)
\* v wrapped by the first i levels of path, the innermost level first
Nest(v, path, i) ==
    IF i = 0 THEN v
    ELSE LET inner == Nest(v, path, i - 1)
         IN IF path[i] = "obj" THEN JObj(<< <<"data", inner>> >>)
            ELSE JArr(<<inner>>)

\* contents with a denylisted key: at the root, or in an element of nodes
\* under up to MaxDepth further levels
BannedInputs ==
    {JObj(<< <<k, JObj(<<>>)>> >>) : k \in BannedKeys}
    \cup {DiagramBanned}
    \cup {JObj(<< <<"nodes", JArr(<<Nest(JObj(<< <<k, JNum(1)>> >>), path,
                                         Len(path))>>)>>,
                  <<"edges", JArr(<<>>)>> >>) :
             k \in BannedKeys, path \in NestPaths}

\* contents without fault
ValidInputs ==
    {EmptyDiagram, DiagramOne, EdgesFirst, DiagramProtoValue, JObj(<<>>)}

\* the contents validateDiagram is applied to
JsonInputs ==
    NonObjectRoots \cup NonArrayFields \cup BannedInputs \cup ValidInputs

\* 5 * 1024 * 1024, the size ceiling of validateDiagram
MaxDiagramSize == 5 * 1024 * 1024

\* mutant: the root check is typeof json !== 'object' alone, which arrays pass
validateDiagramTypeofOnly(json) ==
    IF ~Truthy(json) THEN "ok"
    ELSE IF Len(Stringify(json)) > MaxDiagramSize THEN "ValidationError"
    ELSE IF json.t \notin {"obj", "arr"} THEN "ValidationError"
    ELSE IF json.t = "obj" /\ Truthy(Member(json, "nodes"))
              /\ Member(json, "nodes").t # "arr"
         THEN "ValidationError"
    ELSE IF json.t = "obj" /\ Truthy(Member(json, "edges"))
              /\ Member(json, "edges").t # "arr"
         THEN "ValidationError"
    ELSE IF scanForMaliciousKeys(json) THEN "ValidationError"
    ELSE "ok"

\* ProjectsValidator.validateDiagram: "ok" or the error it throws
validateDiagram(json) ==
    IF ~Truthy(json) THEN "ok"
    ELSE IF Len(Stringify(json)) > MaxDiagramSize THEN "ValidationError"
    ELSE IF json.t # "obj" THEN "ValidationError"
    ELSE IF Truthy(Member(json, "nodes")) /\ Member(json, "nodes").t # "arr"
         THEN "ValidationError"
    ELSE IF Truthy(Member(json, "edges")) /\ Member(json, "edges").t # "arr"
         THEN "ValidationError"
    ELSE IF scanForMaliciousKeys(json) THEN "ValidationError"
    ELSE "ok"

(***************************************************************************)
(* State.                                                                  *)
(***************************************************************************)
VARIABLES
    projects,   \* project table: id -> [content, version]
    versions,   \* projectVersion table, in insertion order; the id is the index
    now,        \* wall clock in milliseconds (Date.now(), the database's now())
    calls,      \* per caller: the service call in flight and its locals
    mongo       \* the MongoIntrospector.introspect invocation and its client

vars == <<projects, versions, now, calls, mongo>>

\* the introspect invocation before it was called
IdleMongo == [pc |-> "idle", collections |-> <<>>, nodes |-> <<>>,
              edges |-> <<>>, cursor |-> [x |-> 100, y |-> 100], uuids |-> 0,
              completion |-> "none", closes |-> 0, outcome |-> "none"]

\* const FIVE_MINUTES = 5 * 60 * 1000
FIVE_MINUTES == 5 * 60 * 1000

\* expectedVersion === undefined
Undefined == -1
\* lastVersion before the findFirst ran / findFirst returned null
NotQueried == -1
NoVersion == 0

NoCurrent == [content |-> JNull, version |-> -1]

\* the meta of a getVersions result, before any was computed
NoMeta == [total |-> 0, page |-> 0, limit |-> 0, totalPages |-> 0]

\* const getUserId = (req) => 'mock-user-id': the user of every request
MockUser == "mock-user-id"

\* no HTTP response was produced
NoResponse == [status |-> 0, code |-> "none"]

IdleCall == [pc |-> "idle", op |-> "none", projectId |-> "none",
             userId |-> "none",
             content |-> JNull, expectedVersion |-> Undefined,
             forceSnapshot |-> FALSE, versionId |-> 0,
             current |-> NoCurrent, lastVersion |-> NotQueried,
             created |-> 0, auditFailed |-> FALSE, auditEvents |-> {},
             listed |-> <<>>,
             meta |-> NoMeta, response |-> NoResponse, result |-> "none"]

Init ==
    /\ projects = [p \in {} |-> NoCurrent]
    /\ versions = <<>>
    /\ now = 0
    /\ calls = [c \in Callers |-> IdleCall]
    /\ mongo = IdleMongo

\* calls on project p that have not yet written or failed
InFlight(p) ==
    Cardinality({c \in Callers :
        /\ calls[c].projectId = p
        /\ calls[c].pc \notin {"idle", "done"}})

\* the environment starts a call on p only while the version cap leaves room
Room(p, cap) ==
    p \in DOMAIN projects => projects[p].version + InFlight(p) < cap

\* no call is in flight: the next one runs alone
Quiet == \A c \in Callers : calls[c].pc \in {"idle", "done"}

\* mutant: the created row already counts one mutation
createProjectAtVersionOne(p) ==
    /\ p \notin DOMAIN projects
    /\ projects' = [q \in DOMAIN projects \cup {p} |->
                       IF q = p THEN [content |-> EmptyDiagram, version |-> 1]
                       ELSE projects[q]]
    /\ UNCHANGED <<versions, now, calls, mongo>>

\* ProjectsService.createProject: one transaction
createProject(p) ==
    /\ p \notin DOMAIN projects
    /\ projects' = [q \in DOMAIN projects \cup {p} |->
                       IF q = p THEN [content |-> EmptyDiagram, version |-> 0]
                       ELSE projects[q]]
    /\ UNCHANGED <<versions, now, calls, mongo>>

\* createProject when tx.auditLog.create rejects: the transaction rolls the
\* project row back and the call rejects with that error
createProjectAuditFails(c, p) ==
    /\ p \notin DOMAIN projects
    /\ calls[c].pc \in {"idle", "done"}
    /\ calls' = [calls EXCEPT ![c] =
                    [IdleCall EXCEPT !.pc = "done", !.result = "AuditError"]]
    /\ UNCHANGED <<projects, versions, now, mongo>>

\* the errors the service throws as ApiError (ApiError.conflict, notFound,
\* badRequest, forbidden); a validation failure is a plain Error
ApiErrors == {"Conflict", "NotFound", "BadRequest", "Forbidden"}

\* status and code of an ApiError of the given kind
ApiErrorResponse(kind) ==
    CASE kind = "Conflict" -> [status |-> 409, code |-> "CONFLICT"]
      [] kind = "NotFound" -> [status |-> 404, code |-> "NOT_FOUND"]
      [] kind = "BadRequest" -> [status |-> 400, code |-> "BAD_REQUEST"]
      [] kind = "Forbidden" -> [status |-> 403, code |-> "FORBIDDEN"]

\* ResponseUtil.handleError: an ApiError keeps its status and code, any
\* other error is the generic internal error
handleError(error) ==
    IF error \in ApiErrors THEN ApiErrorResponse(error)
    ELSE [status |-> 500, code |-> "INTERNAL_ERROR"]

\* the operations called through ProjectsController
ControllerOps == {"save", "restore", "getVersions", "getProjectById",
                  "updateObjectById"}

\* the try/catch of ProjectsController.update, restoreVersion, getVersions, getOne:
\* ResponseUtil.success or, for an error that is no ZodError, handleError
Respond(op, result) ==
    IF op \notin ControllerOps THEN NoResponse
    ELSE IF result = "ok" THEN [status |-> 200, code |-> "none"]
    ELSE handleError(result)

\* a finished call: its outcome, the response of its controller, the audit
\* events it emitted and, when it succeeded, what it was called with
Finish(call, result) ==
    IF result = "ok"
    THEN [IdleCall EXCEPT !.pc = "done", !.op = call.op,
                          !.projectId = call.projectId,
                          !.userId = call.userId,
                          !.expectedVersion = call.expectedVersion,
                          !.versionId = call.versionId,
                          !.auditFailed = call.auditFailed,
                          !.auditEvents = call.auditEvents,
                          !.listed = call.listed,
                          !.meta = call.meta,
                          !.response = Respond(call.op, result),
                          !.result = result]
    ELSE [IdleCall EXCEPT !.pc = "done",
                          !.auditEvents = call.auditEvents,
                          !.response = Respond(call.op, result),
                          !.result = result]

\* saveDiagram up to its first await: validate, hash, issue the project read;
\* a rejected call keeps the content it was rejected for
EnterSave(call, projectId, content, expectedVersion, forceSnapshot) ==
    LET entered == [call EXCEPT !.projectId = projectId,
                                !.content = content,
                                !.expectedVersion = expectedVersion,
                                !.forceSnapshot = forceSnapshot]
    IN IF validateDiagram(content) # "ok"
       THEN [Finish(entered, validateDiagram(content)) EXCEPT
                !.content = content]
       ELSE [entered EXCEPT !.pc = "findUnique"]

saveDiagram(c, projectId, content, userId, expectedVersion, forceSnapshot) ==
    /\ calls[c].pc \in {"idle", "done"}
    /\ calls' = [calls EXCEPT ![c] =
                    EnterSave([IdleCall EXCEPT !.op = "save",
                                               !.userId = userId],
                              projectId, content, expectedVersion,
                              forceSnapshot)]
    /\ UNCHANGED <<projects, versions, now, mongo>>

\* mutant: only a stored version above the expected one counts as stale
VersionMismatchStaleOnly(expectedVersion, current) ==
    expectedVersion # Undefined /\ current.version > expectedVersion

\* the optimistic locking check of saveDiagram on the project it read
VersionMismatch(expectedVersion, current) ==
    expectedVersion # Undefined /\ current.version # expectedVersion

\* mutant: the contents are compared by reference, which never matches
NeedsVersionCheckByReference(current, content, forceSnapshot) == TRUE

\* mutant: the condition forgets forceSnapshot
NeedsVersionCheckHashOnly(current, content, forceSnapshot) ==
    createHash(current.content) # createHash(content)

\* the outer condition of the auto-versioning block
NeedsVersionCheck(current, content, forceSnapshot) ==
    createHash(current.content) # createHash(content) \/ forceSnapshot

\* prisma.project.findUnique resolves: not found, conflict, or on to versioning
FindUnique(c) ==
    LET call == calls[c]
        p == call.projectId
    IN /\ call.pc = "findUnique"
       /\ calls' = [calls EXCEPT ![c] =
            IF p \notin DOMAIN projects THEN Finish(call, "NotFound")
            ELSE IF VersionMismatch(call.expectedVersion, projects[p])
                 THEN Finish(call, "Conflict")
            ELSE IF NeedsVersionCheck(projects[p], call.content,
                                      call.forceSnapshot)
                 THEN [call EXCEPT !.pc = "findFirst", !.current = projects[p]]
            ELSE [call EXCEPT !.pc = "update", !.current = projects[p]]]
       /\ UNCHANGED <<projects, versions, now, mongo>>

\* ids of the snapshots of project p
VersionsOf(p) == {i \in 1..Len(versions) : versions[i].projectId = p}

\* mutant: the latest snapshot is looked up without the projectId filter
LatestVersionsOfAnyProject(p) ==
    {i \in 1..Len(versions) :
        \A j \in 1..Len(versions) : versions[j].createdAt <= versions[i].createdAt}

\* findFirst({ where: { projectId }, orderBy: { createdAt: 'desc' } })
LatestVersions(p) ==
    {i \in VersionsOf(p) :
        \A j \in VersionsOf(p) : versions[j].createdAt <= versions[i].createdAt}

\* mutant: the window is compared with >= instead of >
shouldSaveVersionInclusive(forceSnapshot, lastVersion, dateNow) ==
    \/ forceSnapshot
    \/ lastVersion = NoVersion
    \/ dateNow - versions[lastVersion].createdAt >= FIVE_MINUTES

\* const shouldSaveVersion = forceSnapshot || !lastVersion || (Date.now() - ... )
shouldSaveVersion(forceSnapshot, lastVersion, dateNow) ==
    \/ forceSnapshot
    \/ lastVersion = NoVersion
    \/ dateNow - versions[lastVersion].createdAt > FIVE_MINUTES

\* prisma.projectVersion.findFirst resolves and the throttle is decided
FindFirst(c) ==
    LET call == calls[c]
    IN /\ call.pc = "findFirst"
       /\ \E last \in IF LatestVersions(call.projectId) = {} THEN {NoVersion}
                      ELSE LatestVersions(call.projectId) :
            calls' = [calls EXCEPT ![c] =
                [call EXCEPT !.lastVersion = last,
                             !.pc = IF shouldSaveVersion(call.forceSnapshot,
                                                         last, now)
                                    THEN "create" ELSE "update"]]
       /\ UNCHANGED <<projects, versions, now, mongo>>

\* mutant: every snapshot is described as an auto-save
NewVersionAlwaysAuto(call, createdAt) ==
    [projectId |-> call.projectId,
     content |-> IF call.current.content = JNull THEN JObj(<<>>)
                 ELSE call.current.content,
     description |-> "Auto-save (Smart)",
     createdAt |-> createdAt]

\* mutant: the snapshot stores the new content instead of the old state
NewVersionNewContent(call, createdAt) ==
    [projectId |-> call.projectId,
     content |-> call.content,
     description |-> IF call.forceSnapshot THEN "Backup before Restore"
                     ELSE "Auto-save (Smart)",
     createdAt |-> createdAt]

\* the row prisma.projectVersion.create inserts
NewVersion(call, createdAt) ==
    [projectId |-> call.projectId,
     content |-> IF call.current.content = JNull THEN JObj(<<>>)
                 ELSE call.current.content,
     description |-> IF call.forceSnapshot THEN "Backup before Restore"
                     ELSE "Auto-save (Smart)",
     createdAt |-> createdAt]

\* mutant: the project keeps one snapshot, which every new one replaces
CreateVersionReplacesLatest(c) ==
    LET call == calls[c]
        own == VersionsOf(call.projectId)
        slot == IF own = {} THEN Len(versions) + 1
                ELSE CHOOSE i \in own : \A j \in own : j <= i
    IN /\ call.pc = "create"
       /\ versions' = IF own = {} THEN Append(versions, NewVersion(call, now))
                      ELSE [versions EXCEPT ![slot] = NewVersion(call, now)]
       /\ calls' = [calls EXCEPT ![c] =
                       [call EXCEPT !.created = slot, !.pc = "update"]]
       /\ UNCHANGED <<projects, now, mongo>>

\* prisma.projectVersion.create resolves
CreateVersion(c) ==
    LET call == calls[c]
    IN /\ call.pc = "create"
       /\ versions' = Append(versions, NewVersion(call, now))
       /\ calls' = [calls EXCEPT ![c] =
                       [call EXCEPT !.created = Len(versions) + 1,
                                    !.pc = "update"]]
       /\ UNCHANGED <<projects, now, mongo>>

\* mutant: a write that changes nothing does not count as a new version
UpdatedProjectSkipsNoOp(project, content) ==
    [content |-> content,
     version |-> IF content = project.content THEN project.version
                 ELSE project.version + 1]

\* the row prisma.project.update leaves: new content, version incremented
UpdatedProject(project, content) ==
    [content |-> content, version |-> project.version + 1]

\* mutant: a write of content identical to the stored content is skipped
UpdateProjectSkipsIdentical(c) ==
    LET call == calls[c]
        p == call.projectId
    IN /\ call.pc = "update"
       /\ projects' = IF call.content = projects[p].content THEN projects
                      ELSE [projects EXCEPT ![p] =
                               UpdatedProject(projects[p], call.content)]
       /\ calls' = [calls EXCEPT ![c] = Finish(call, "ok")]
       /\ UNCHANGED <<versions, now, mongo>>

\* mutant: the version written is the version read plus one
UpdateProjectFromRead(c) ==
    LET call == calls[c]
        p == call.projectId
    IN /\ call.pc = "update"
       /\ projects' = [projects EXCEPT ![p] =
                          [content |-> call.content,
                           version |-> call.current.version + 1]]
       /\ calls' = [calls EXCEPT ![c] = Finish(call, "ok")]
       /\ UNCHANGED <<versions, now, mongo>>

\* prisma.project.update resolves: content written, version incremented in
\* the database
UpdateProject(c) ==
    LET call == calls[c]
        p == call.projectId
    IN /\ call.pc = "update"
       /\ projects' = [projects EXCEPT ![p] = UpdatedProject(projects[p],
                                                             call.content)]
       /\ calls' = [calls EXCEPT ![c] = Finish(call, "ok")]
       /\ UNCHANGED <<versions, now, mongo>>

\* prisma.project.update rejects (the row is gone, the database fails): the
\* save rejects with that error; nothing the call did before is undone
UpdateProjectFails(c) ==
    /\ calls[c].pc = "update"
    /\ calls' = [calls EXCEPT ![c] = Finish(calls[c], "UpdateError")]
    /\ UNCHANGED <<projects, versions, now, mongo>>

\* a key the request body does not have
Absent == [t |-> "undefined"]

\* BaseHelper.updateObjectById(id, data): the row with the fields of data
\* written over it, as prisma.project.update({ where: { id }, data }) does
updateObjectById(project, body) ==
    [content |-> IF body.content = Absent THEN project.content
                 ELSE body.content,
     version |-> IF body.version = Undefined THEN project.version
                 ELSE body.version]

\* ProjectsController.update: a truthy body.content is saved through
\* saveDiagram with body.version as expectedVersion; any other body is
\* passed to updateObjectById as it is
update(c, id, body) ==
    /\ calls[c].pc \in {"idle", "done"}
    /\ IF body.content # Absent /\ Truthy(body.content)
       THEN /\ calls' = [calls EXCEPT ![c] =
                   EnterSave([IdleCall EXCEPT !.op = "save",
                                              !.userId = MockUser],
                             id, body.content, body.version, FALSE)]
            /\ UNCHANGED projects
       ELSE IF id \notin DOMAIN projects
       THEN /\ calls' = [calls EXCEPT ![c] =
                   Finish([IdleCall EXCEPT !.op = "updateObjectById"],
                          "UpdateError")]
            /\ UNCHANGED projects
       ELSE /\ projects' = [projects EXCEPT ![id] =
                               updateObjectById(projects[id], body)]
            /\ calls' = [calls EXCEPT ![c] =
                   Finish([IdleCall EXCEPT !.op = "updateObjectById",
                                           !.projectId = id,
                                           !.userId = MockUser], "ok")]
    /\ UNCHANGED <<versions, now, mongo>>

\* restoreVersion up to its first await: issue the snapshot read
restoreVersion(c, projectId, versionId, userId) ==
    /\ calls[c].pc \in {"idle", "done"}
    /\ calls' = [calls EXCEPT ![c] =
                    [IdleCall EXCEPT !.op = "restore", !.pc = "findVersion",
                                     !.projectId = projectId,
                                     !.userId = userId,
                                     !.versionId = versionId]]
    /\ UNCHANGED <<projects, versions, now, mongo>>

\* mutant: the snapshot's owner is not compared with projectId
FindVersionAnyProject(c) ==
    LET call == calls[c]
        v == call.versionId
    IN /\ call.pc = "findVersion"
       /\ calls' = [calls EXCEPT ![c] =
            IF v \notin 1..Len(versions) THEN Finish(call, "NotFound")
            ELSE [call EXCEPT !.pc = "audit", !.content = versions[v].content]]
       /\ UNCHANGED <<projects, versions, now, mongo>>

\* prisma.projectVersion.findUnique resolves: not found, bad request, or audit
FindVersion(c) ==
    LET call == calls[c]
        v == call.versionId
    IN /\ call.pc = "findVersion"
       /\ calls' = [calls EXCEPT ![c] =
            IF v \notin 1..Len(versions) THEN Finish(call, "NotFound")
            ELSE IF versions[v].projectId # call.projectId
                 THEN Finish(call, "BadRequest")
            ELSE [call EXCEPT !.pc = "audit", !.content = versions[v].content]]
       /\ UNCHANGED <<projects, versions, now, mongo>>

\* mutant: restoreVersion calls saveDiagram without forceSnapshot
AuditUnforced(c) ==
    /\ calls[c].pc = "audit"
    /\ calls' = [calls EXCEPT ![c] =
                    EnterSave(calls[c], calls[c].projectId, calls[c].content,
                              Undefined, FALSE)]
    /\ UNCHANGED <<projects, versions, now, mongo>>

\* mutant: restoreVersion expects the version the project was created with
AuditExpectsCreatedVersion(c) ==
    /\ calls[c].pc = "audit"
    /\ calls' = [calls EXCEPT ![c] =
                    EnterSave(calls[c], calls[c].projectId, calls[c].content,
                              0, TRUE)]
    /\ UNCHANGED <<projects, versions, now, mongo>>

\* the entry audit.versionRestored(userId, projectId, versionId) writes
VersionRestored(call) ==
    [action |-> "VERSION_RESTORED", userId |-> call.userId,
     projectId |-> call.projectId, versionId |-> call.versionId]

\* audit.versionRestored resolves, its entry written; restoreVersion then
\* calls saveDiagram
Audit(c) ==
    LET call == calls[c]
    IN /\ call.pc = "audit"
       /\ calls' = [calls EXCEPT ![c] =
                       EnterSave([call EXCEPT !.auditEvents =
                                      {VersionRestored(call)}],
                                 call.projectId, call.content,
                                 Undefined, TRUE)]
       /\ UNCHANGED <<projects, versions, now, mongo>>

\* findMany({ where: { projectId }, orderBy: { createdAt: 'desc' } }): the
\* orders the database may return the snapshots of p in
ListedOrders(p) ==
    LET n == Cardinality(VersionsOf(p))
    IN {s \in [1..n -> VersionsOf(p)] :
          /\ \A i, j \in 1..n : i # j => s[i] # s[j]
          /\ \A i, j \in 1..n :
                i < j => versions[s[i]].createdAt >= versions[s[j]].createdAt}

\* options.page || 1, options.limit || 20: an omitted or zero option takes
\* the default
OrDefault(option, default) ==
    IF option = Undefined \/ option = 0 THEN default ELSE option

\* Math.ceil(total / limit) for a positive limit
Ceil(total, limit) == (total + limit - 1) \div limit

\* skip and take applied to the ordered snapshots
Page(s, skip, take) ==
    IF skip >= Len(s) THEN <<>>
    ELSE SubSeq(s, skip + 1, IF skip + take > Len(s) THEN Len(s) ELSE skip + take)

\* ProjectsService.getVersions: count and findMany issued together, no
\* write; the result is { versions, meta }
getVersions(c, projectId, page, limit) ==
    LET p == OrDefault(page, 1)
        l == OrDefault(limit, 20)
        skip == (p - 1) * l
        total == Cardinality(VersionsOf(projectId))
    IN /\ calls[c].pc \in {"idle", "done"}
       /\ \E s \in ListedOrders(projectId) :
            calls' = [calls EXCEPT ![c] =
                Finish([IdleCall EXCEPT
                           !.op = "getVersions",
                           !.projectId = projectId,
                           !.listed = Page(s, skip, l),
                           !.meta = [total |-> total, page |-> p, limit |-> l,
                                     totalPages |-> Ceil(total, l)]], "ok")]
       /\ UNCHANGED <<projects, versions, now, mongo>>

\* the users that call the service: the creator of the projects, a member
\* of team 't1', and a user who is neither
Users == {MockUser, "u2", "u3"}

\* project.userId: createProject stores the userId it was called with
ProjectUserId(p) == MockUser

\* project.teamId: the optional teamId createProject was called with; "p2"
\* was created for team 't1', "p1" without a team
ProjectTeamId(p) == IF p = "p2" THEN "t1" ELSE "none"

\* the teamToken rows: who is a member of which team
TeamTokens == {[teamId |-> "t1", userId |-> MockUser],
               [teamId |-> "t1", userId |-> "u2"]}

\* ProjectsService.getProjectById: one read, then the access check
getProjectById(c, id, userId) ==
    /\ calls[c].pc \in {"idle", "done"}
    /\ calls' = [calls EXCEPT ![c] =
            LET call == [IdleCall EXCEPT !.op = "getProjectById",
                                         !.projectId = id, !.userId = userId]
            IN IF id \notin DOMAIN projects THEN Finish(call, "NotFound")
               ELSE IF ProjectUserId(id) # userId /\ ProjectTeamId(id) = "none"
                    THEN Finish(call, "Forbidden")
               ELSE Finish(call, "ok")]
    /\ UNCHANGED <<projects, versions, now, mongo>>

\* a call of the audit service (audit.versionRestored, audit.schemaImported)
\* whose write of the entry fails or not: best effort, it resolves either way
auditCall(writeFails) == "resolved"

\* audit.versionRestored when the write of the entry fails
AuditFails(c) ==
    LET call == calls[c]
    IN /\ call.pc = "audit"
       /\ calls' = [calls EXCEPT ![c] =
            IF auditCall(TRUE) = "resolved"
            THEN EnterSave([call EXCEPT !.auditFailed = TRUE], call.projectId,
                           call.content, Undefined, TRUE)
            ELSE Finish(call, "AuditError")]
       /\ UNCHANGED <<projects, versions, now, mongo>>

\* the outcomes of JobExecutor.executeAuto
JobOutcomes == {"pending", "completed", "failed"}

\* ImportController.importMysql: run the job, audit a completed import,
\* answer
importMysql(c, job, writeFails) ==
    /\ calls[c].pc \in {"idle", "done"}
    /\ calls' = [calls EXCEPT ![c] =
            LET call == [IdleCall EXCEPT !.op = "importMysql",
                                         !.auditFailed = writeFails]
            IN CASE job = "pending" -> Finish(call, "Accepted")
                 [] job = "failed" -> Finish(call, "ImportFailed")
                 [] job = "completed" ->
                      IF auditCall(writeFails) = "resolved"
                      THEN Finish(call, "ok")
                      ELSE Finish(call, "AuditError")]
    /\ UNCHANGED <<projects, versions, now, mongo>>

\* instants the clock is observed at: within, at and past the throttling window
Times == {0, FIVE_MINUTES, FIVE_MINUTES + 1}
SeqTimes == {0, FIVE_MINUTES, FIVE_MINUTES + 1, 2 * FIVE_MINUTES + 2}
ChainTimes == {0, FIVE_MINUTES, FIVE_MINUTES + 1, 2 * FIVE_MINUTES + 2,
               3 * FIVE_MINUTES + 3}

\* the wall clock advances
Tick(t) ==
    /\ t > now
    /\ now' = t
    /\ UNCHANGED <<projects, versions, calls, mongo>>

\* the steps of a call after it was entered
Step(c) ==
    \/ FindUnique(c)
    \/ FindFirst(c)
    \/ CreateVersion(c)
    \/ UpdateProject(c)
    \/ FindVersion(c)
    \/ Audit(c)

(***************************************************************************)
(* Spec: two callers race on one project.                                  *)
(***************************************************************************)
Next ==
    \/ \E p \in RaceProjects : createProject(p)
    \/ \E c \in Callers, p \in RaceProjects, content \in SaveContents,
          ev \in {Undefined} \cup (0..(MaxVersion - 1)), force \in BOOLEAN :
            Room(p, MaxVersion) /\ saveDiagram(c, p, content, MockUser, ev, force)
    \/ \E c \in Callers, p \in RaceProjects, v \in 1..(Len(versions) + 1) :
            Room(p, MaxVersion) /\ restoreVersion(c, p, v, MockUser)
    \/ \E c \in Callers : Step(c)
    \/ \E t \in Times : Tick(t)

Spec == Init /\ [][Next]_vars

(***************************************************************************)
(* SeqSpec: one caller, its calls one after another; "p2" is the id of no  *)
(* project.                                                                *)
(***************************************************************************)
SeqNext ==
    \/ \E p \in RaceProjects : createProject(p)
    \/ \E p \in Projects, content \in SaveContents,
          ev \in {Undefined} \cup (0..(MaxSeqVersion - 1)), force \in BOOLEAN :
            /\ Room(p, MaxSeqVersion)
            /\ saveDiagram("c1", p, content, MockUser, ev, force)
    \/ \E p \in Projects, v \in 1..(Len(versions) + 1) :
            Room(p, MaxSeqVersion) /\ restoreVersion("c1", p, v, MockUser)
    \/ Step("c1")
    \/ \E t \in SeqTimes : Tick(t)

SeqSpec == Init /\ [][SeqNext]_vars

(***************************************************************************)
(* ChainSpec: successful saves one after another, each with content whose  *)
(* fingerprint differs from the stored one and each started more than the  *)
(* throttling window after every snapshot of the project.                  *)
(***************************************************************************)
WindowPassed(p) ==
    \A i \in VersionsOf(p) : now - versions[i].createdAt > FIVE_MINUTES

ChainContents == {EmptyDiagram, DiagramOne, DiagramTwo}

ChainNext ==
    \/ \E p \in RaceProjects : createProject(p)
    \/ \E p \in RaceProjects, content \in ChainContents, force \in BOOLEAN :
        \E ev \in {Undefined} \cup (0..(MaxSeqVersion - 1)) :
            /\ p \in DOMAIN projects
            /\ Quiet
            /\ Room(p, MaxSeqVersion)
            /\ ev \in {Undefined, projects[p].version}
            /\ createHash(content) # createHash(projects[p].content)
            /\ WindowPassed(p)
            /\ saveDiagram("c1", p, content, MockUser, ev, force)
    \/ FindUnique("c1")
    \/ FindFirst("c1")
    \/ CreateVersion("c1")
    \/ UpdateProject("c1")
    \/ \E t \in ChainTimes : Tick(t)

ChainSpec == Init /\ [][ChainNext]_vars

(***************************************************************************)
(* CrossSpec: one caller works on two projects, so that a restore can name *)
(* a snapshot of the other project.                                        *)
(***************************************************************************)
CrossContents == {EmptyDiagram, DiagramOne}

CrossNext ==
    \/ \E p \in Projects : createProject(p)
    \/ \E p \in Projects, content \in CrossContents :
            Room(p, MaxVersion) /\ saveDiagram("c1", p, content, MockUser, Undefined, FALSE)
    \/ \E p \in Projects, v \in 1..(Len(versions) + 1) :
            Room(p, MaxVersion) /\ restoreVersion("c1", p, v, MockUser)
    \/ \E p \in Projects : getVersions("c1", p, Undefined, Undefined)
    \/ Step("c1")

CrossSpec == Init /\ [][CrossNext]_vars

(***************************************************************************)
(* FrameSpec: two callers save and restore in parallel, each its own       *)
(* project; a restore may name a snapshot of the other project.            *)
(***************************************************************************)
FrameTimes == {0, FIVE_MINUTES + 1}

\* the project each caller works on
ProjectOf(c) == IF c = "c1" THEN "p1" ELSE "p2"

FrameNext ==
    \/ \E p \in Projects : createProject(p)
    \/ \E c \in Callers, content \in CrossContents :
            /\ Room(ProjectOf(c), MaxVersion)
            /\ saveDiagram(c, ProjectOf(c), content, MockUser, Undefined, FALSE)
    \/ \E c \in Callers, v \in 1..(Len(versions) + 1) :
            /\ Room(ProjectOf(c), MaxVersion)
            /\ restoreVersion(c, ProjectOf(c), v, MockUser)
    \/ \E c \in Callers : Step(c)
    \/ \E t \in FrameTimes : Tick(t)

FrameSpec == Init /\ [][FrameNext]_vars

(***************************************************************************)
(* PageSpec: one caller saves a project, two callers list the snapshots of *)
(* that project and of another one page by page.                           *)
(***************************************************************************)
PageNumbers == {1, 2}
PageLimits == {Undefined, 1}

PageNext ==
    \/ \E p \in Projects : createProject(p)
    \/ \E p \in RaceProjects, force \in BOOLEAN :
            /\ Room(p, MaxVersion)
            /\ saveDiagram("c1", p, DiagramOne, MockUser, Undefined, force)
    \/ FindUnique("c1")
    \/ FindFirst("c1")
    \/ CreateVersion("c1")
    \/ UpdateProject("c1")
    \/ \E c \in Callers, p \in Projects, page \in PageNumbers,
          limit \in PageLimits : getVersions(c, p, page, limit)
    \/ \E t \in FrameTimes : Tick(t)

PageSpec == Init /\ [][PageNext]_vars

(***************************************************************************)
(* AccessSpec: the owner, a team member and a stranger read, save and      *)
(* restore a project without a team and a project of a team.               *)
(***************************************************************************)
AccessNext ==
    \/ \E p \in Projects : createProject(p)
    \/ \E p \in Projects, userId \in Users : getProjectById("c1", p, userId)
    \/ \E p \in Projects, userId \in Users :
            /\ Room(p, MaxVersion)
            /\ saveDiagram("c1", p, DiagramOne, userId, Undefined, FALSE)
    \/ \E p \in Projects, v \in 1..(Len(versions) + 1), userId \in Users :
            Room(p, MaxVersion) /\ restoreVersion("c1", p, v, userId)
    \/ Step("c1")

AccessSpec == Init /\ [][AccessNext]_vars

(***************************************************************************)
(* BurstSpec: every caller issues one save of a freshly created project,   *)
(* all of them concurrently.                                               *)
(***************************************************************************)
BurstNext ==
    \/ \E p \in RaceProjects : createProject(p)
    \/ \E c \in Callers, p \in RaceProjects, content \in CrossContents,
          ev \in {Undefined, 0, 1} :
            /\ calls[c].pc = "idle"
            /\ saveDiagram(c, p, content, MockUser, ev, FALSE)
    \/ \E c \in Callers : FindUnique(c)
    \/ \E c \in Callers : FindFirst(c)
    \/ \E c \in Callers : CreateVersion(c)
    \/ \E c \in Callers : UpdateProject(c)

BurstSpec == Init /\ [][BurstNext]_vars

(***************************************************************************)
(* FailSpec: one caller saves and restores while the final update of a     *)
(* save may fail.                                                          *)
(***************************************************************************)
\* the environment starts a call only while few snapshots are stored: a
\* failed update leaves the version, and with it Room, as it was
FailNext ==
    \/ \E p \in RaceProjects : createProject(p)
    \/ \E p \in RaceProjects, content \in CrossContents :
            /\ Room(p, MaxVersion)
            /\ Len(versions) < MaxSeqVersion
            /\ saveDiagram("c1", p, content, MockUser, Undefined, FALSE)
    \/ \E p \in RaceProjects, v \in 1..(Len(versions) + 1) :
            /\ Room(p, MaxVersion)
            /\ Len(versions) < MaxSeqVersion
            /\ restoreVersion("c1", p, v, MockUser)
    \/ Step("c1")
    \/ UpdateProjectFails("c1")

FailSpec == Init /\ [][FailNext]_vars

(***************************************************************************)
(* UpdateSpec: requests to ProjectsController.update with and without      *)
(* content and version in the body.                                        *)
(***************************************************************************)
\* body.content: absent, falsy, a diagram, a diagram the validator rejects
BodyContents == {Absent, JStr(""), JNum(0), JBool(FALSE), DiagramOne,
                 DiagramBanned}
\* body.version: absent or a number
BodyVersions == {Undefined, 0, 1}

UpdateNext ==
    \/ \E p \in RaceProjects : createProject(p)
    \/ \E p \in RaceProjects, content \in BodyContents,
          version \in BodyVersions :
            /\ Room(p, MaxVersion)
            /\ update("c1", p, [content |-> content, version |-> version])
    \/ FindUnique("c1")
    \/ FindFirst("c1")
    \/ CreateVersion("c1")
    \/ UpdateProject("c1")

UpdateSpec == Init /\ [][UpdateNext]_vars

(***************************************************************************)
(* InputSpec: the validator applied to every content of JsonInputs, alone  *)
(* and in the saves ProjectsController.update issues for a truthy          *)
(* body.content.                                                           *)
(***************************************************************************)
\* ProjectsValidator.validateDiagram called on its own
validate(c, json) ==
    /\ calls[c].pc \in {"idle", "done"}
    /\ calls' = [calls EXCEPT ![c] =
                    [IdleCall EXCEPT !.pc = "done", !.op = "validate",
                                     !.content = json,
                                     !.result = validateDiagram(json)]]
    /\ UNCHANGED <<projects, versions, now, mongo>>

InputNext ==
    \/ \E p \in RaceProjects : createProject(p)
    \/ \E json \in JsonInputs : validate("c1", json)
    \/ \E p \in RaceProjects, json \in JsonInputs :
            /\ Truthy(json)
            /\ Room(p, MaxInputSaves) \/ validateDiagram(json) # "ok"
            /\ saveDiagram("c1", p, json, MockUser, Undefined, FALSE)
    \/ FindUnique("c1")
    \/ FindFirst("c1")
    \/ CreateVersion("c1")
    \/ UpdateProject("c1")

InputSpec == Init /\ [][InputNext]_vars

(***************************************************************************)
(* AuditSpec: one caller creates, saves, restores and imports while the    *)
(* writes of audit entries may fail.                                       *)
(***************************************************************************)
AuditNext ==
    \/ \E p \in RaceProjects : createProject(p)
    \/ \E p \in RaceProjects : createProjectAuditFails("c1", p)
    \/ \E p \in RaceProjects, content \in CrossContents :
            Room(p, MaxSeqVersion) /\ saveDiagram("c1", p, content, MockUser, Undefined, FALSE)
    \/ \E p \in RaceProjects, v \in 1..(Len(versions) + 1) :
            Room(p, MaxSeqVersion) /\ restoreVersion("c1", p, v, MockUser)
    \/ \E job \in JobOutcomes, writeFails \in BOOLEAN :
            importMysql("c1", job, writeFails)
    \/ Step("c1")
    \/ AuditFails("c1")

AuditSpec == Init /\ [][AuditNext]_vars

(***************************************************************************)
(* MongoIntrospector.introspect: connect, list the collections, sample one *)
(* document of each, infer the relationships, close.                       *)
(***************************************************************************)
\* names, as the sequences of their characters
Chars_id == <<"_", "i", "d">>
CharsId == <<"I", "d">>
CharsUserId == <<"u", "s", "e", "r", "I", "d">>
CharsIdentityId == <<"I", "d", "e", "n", "t", "i", "t", "y", "I", "d">>
CharsName == <<"n", "a", "m", "e">>
CharsUsers == <<"u", "s", "e", "r", "s">>
CharsUser == <<"u", "s", "e", "r">>
CharsUpperUsers == <<"U", "s", "e", "r", "s">>
CharsIdentity == <<"i", "d", "e", "n", "t", "i", "t", "y">>
CharsPosts == <<"p", "o", "s", "t", "s">>
CharsOrders == <<"o", "r", "d", "e", "r", "s">>

UpperCaseLetters ==
    <<"A", "B", "C", "D", "E", "F", "G", "H", "I", "J", "K", "L", "M",
      "N", "O", "P", "Q", "R", "S", "T", "U", "V", "W", "X", "Y", "Z">>
LowerCaseLetters ==
    <<"a", "b", "c", "d", "e", "f", "g", "h", "i", "j", "k", "l", "m",
      "n", "o", "p", "q", "r", "s", "t", "u", "v", "w", "x", "y", "z">>

\* String.prototype.toLowerCase
toLowerCase(s) ==
    [i \in 1..Len(s) |->
        IF \E k \in DOMAIN UpperCaseLetters : UpperCaseLetters[k] = s[i]
        THEN LowerCaseLetters[CHOOSE k \in DOMAIN UpperCaseLetters :
                                  UpperCaseLetters[k] = s[i]]
        ELSE s[i]]

\* String.prototype.endsWith
endsWith(s, suffix) ==
    /\ Len(s) >= Len(suffix)
    /\ SubSeq(s, Len(s) - Len(suffix) + 1, Len(s)) = suffix

\* the positions at which pattern occurs in s
Occurrences(s, pattern) ==
    {i \in 1..(Len(s) - Len(pattern) + 1) :
        SubSeq(s, i, i + Len(pattern) - 1) = pattern}

\* String.prototype.replace with a string pattern: the first occurrence only
replace(s, pattern, replacement) ==
    IF Occurrences(s, pattern) = {} THEN s
    ELSE LET i == CHOOSE k \in Occurrences(s, pattern) :
                      \A l \in Occurrences(s, pattern) : k <= l
         IN SubSeq(s, 1, i - 1) \o replacement
            \o SubSeq(s, i + Len(pattern), Len(s))

\* BSON values a sampled document may hold besides the JSON ones
ObjectIdValue == [t |-> "objectId"]
DateValue == [t |-> "date"]

\* MongoIntrospector.mapType
mapType(value) ==
    CASE value.t = "null" -> "String"
      [] value.t = "arr" -> "Array"
      [] value.t = "objectId" -> "ObjectId"
      [] value.t = "date" -> "Date"
      [] value.t = "num" -> "Number"
      [] value.t = "str" -> "String"
      [] value.t = "bool" -> "Boolean"
      [] value.t = "obj" -> "Object"

\* findOne({}) resolved to null: the collection is empty
NoSample == <<"null">>

RECURSIVE SampleFieldsKeepId(_, _)
\* mutant: the '_id' entry of the sample is not skipped
SampleFieldsKeepId(entries, uuids) ==
    IF entries = <<>> THEN <<>>
    ELSE <<[id |-> uuids + 1, name |-> Head(entries)[1],
            type |-> mapType(Head(entries)[2]),
            isNullable |-> TRUE, isPrimaryKey |-> FALSE]>>
         \o SampleFieldsKeepId(Tail(entries), uuids + 1)

RECURSIVE SampleFields(_, _)
\* the fields pushed for Object.entries(sample), '_id' skipped; uuids is the
\* number of ids crypto.randomUUID() has handed out so far
SampleFields(entries, uuids) ==
    IF entries = <<>> THEN <<>>
    ELSE IF Head(entries)[1] = Chars_id
         THEN SampleFields(Tail(entries), uuids)
    ELSE <<[id |-> uuids + 1, name |-> Head(entries)[1],
            type |-> mapType(Head(entries)[2]),
            isNullable |-> TRUE, isPrimaryKey |-> FALSE]>>
         \o SampleFields(Tail(entries), uuids + 1)

\* the fields of a node: the synthesized '_id', then those of the sample
NodeFields(sample, uuids) ==
    <<[id |-> uuids + 1, name |-> Chars_id, type |-> "ObjectId",
       isNullable |-> FALSE, isPrimaryKey |-> TRUE]>>
    \o (IF sample = NoSample THEN <<>> ELSE SampleFields(sample, uuids + 1))

\* mutant: the wrap resets currentX and leaves currentY
NextCursorSameRow(cursor) ==
    IF cursor.x + 350 > 1000 THEN [x |-> 100, y |-> cursor.y]
    ELSE [x |-> cursor.x + 350, y |-> cursor.y]

\* currentX += 350; if (currentX > 1000) { currentX = 100; currentY += 400 }
NextCursor(cursor) ==
    IF cursor.x + 350 > 1000 THEN [x |-> 100, y |-> cursor.y + 400]
    ELSE [x |-> cursor.x + 350, y |-> cursor.y]

\* the loop body for one collection: fields, node, cursor
PushNode(m, name, sample) ==
    LET fields == NodeFields(sample, m.uuids)
        node == [id |-> m.uuids + Len(fields) + 1, type |-> "mongoCollection",
                 position |-> m.cursor, label |-> name, fields |-> fields]
    IN [m EXCEPT !.nodes = Append(m.nodes, node),
                 !.uuids = m.uuids + Len(fields) + 1,
                 !.cursor = NextCursor(m.cursor)]

\* field.name.endsWith('Id') && field.name !== '_id'
IsReference(field) == endsWith(field.name, CharsId) /\ field.name # Chars_id

\* field.name.replace('Id', '').toLowerCase()
BaseName(field) == toLowerCase(replace(field.name, CharsId, <<>>))

\* the nodes nodes.find(...) tests true for
Matches(nodes, base) ==
    {k \in DOMAIN nodes :
        \/ toLowerCase(nodes[k].label) = base
        \/ toLowerCase(nodes[k].label) = base \o <<"s">>}

\* mutant: the edge points at the field instead of at the node found
InferredEdgeToField(nodes, i, j, uuids) ==
    [id |-> uuids + 1, source |-> nodes[i].id,
     target |-> nodes[i].fields[j].id]

\* the edge pushed for field j of node i, whose target nodes.find found
InferredEdge(nodes, i, j, uuids) ==
    LET found == Matches(nodes, BaseName(nodes[i].fields[j]))
        target == CHOOSE k \in found : \A l \in found : k <= l
    IN [id |-> uuids + 1, source |-> nodes[i].id, target |-> nodes[target].id]

\* the edge of field j of node i to the k-th node
EdgeTo(nodes, i, k, uuids) ==
    [id |-> uuids + 1, source |-> nodes[i].id, target |-> nodes[k].id]

RECURSIVE InferEdgesEveryMatch(_, _, _, _)
\* mutant: an edge is pushed to the first and to the last node that matches
InferEdgesEveryMatch(nodes, i, j, uuids) ==
    IF i > Len(nodes) THEN <<>>
    ELSE IF j > Len(nodes[i].fields)
         THEN InferEdgesEveryMatch(nodes, i + 1, 1, uuids)
    ELSE IF /\ IsReference(nodes[i].fields[j])
            /\ Matches(nodes, BaseName(nodes[i].fields[j])) # {}
         THEN LET found == Matches(nodes, BaseName(nodes[i].fields[j]))
                  first == CHOOSE k \in found : \A l \in found : k <= l
                  last == CHOOSE k \in found : \A l \in found : l <= k
              IN IF first = last
                 THEN <<EdgeTo(nodes, i, first, uuids)>>
                      \o InferEdgesEveryMatch(nodes, i, j + 1, uuids + 1)
                 ELSE <<EdgeTo(nodes, i, first, uuids),
                        EdgeTo(nodes, i, last, uuids + 1)>>
                      \o InferEdgesEveryMatch(nodes, i, j + 1, uuids + 2)
    ELSE InferEdgesEveryMatch(nodes, i, j + 1, uuids)

RECURSIVE InferEdges(_, _, _, _)
\* the two nested loops of the relationship inference, from field j of node
\* i on
InferEdges(nodes, i, j, uuids) ==
    IF i > Len(nodes) THEN <<>>
    ELSE IF j > Len(nodes[i].fields) THEN InferEdges(nodes, i + 1, 1, uuids)
    ELSE IF /\ IsReference(nodes[i].fields[j])
            /\ Matches(nodes, BaseName(nodes[i].fields[j])) # {}
         THEN <<InferredEdge(nodes, i, j, uuids)>>
              \o InferEdges(nodes, i, j + 1, uuids + 1)
    ELSE InferEdges(nodes, i, j + 1, uuids)

\* const client = new MongoClient(uri); try { await client.connect() ...
introspect ==
    /\ mongo.pc \in {"idle", "done"}
    /\ mongo' = [IdleMongo EXCEPT !.pc = "connect"]
    /\ UNCHANGED <<projects, versions, now, calls>>

\* mutant: the release is written after the try block instead of in finally
RejectedWithoutFinally(m, error) ==
    [m EXCEPT !.completion = error, !.outcome = error, !.pc = "done"]

\* an awaited call inside the try block rejects: control goes to finally
\* with the error pending
Rejected(m, error) == [m EXCEPT !.completion = error, !.pc = "close"]

\* await client.connect()
Connect(ok) ==
    /\ mongo.pc = "connect"
    /\ mongo' = IF ok THEN [mongo EXCEPT !.pc = "listCollections"]
                ELSE Rejected(mongo, "ConnectError")
    /\ UNCHANGED <<projects, versions, now, calls>>

\* the loop over the collections is over: the edges are inferred and the
\* return statement is reached, finally runs with the return pending
Returning(m) ==
    LET edges == InferEdges(m.nodes, 1, 1, m.uuids)
    IN [m EXCEPT !.edges = edges, !.uuids = m.uuids + Len(edges),
                 !.completion = "return", !.pc = "close"]

\* await db.listCollections().toArray() resolves to collections
ListCollections(collections) ==
    /\ mongo.pc = "listCollections"
    /\ mongo' = IF collections = <<>> THEN Returning(mongo)
                ELSE [mongo EXCEPT !.collections = collections,
                                   !.pc = "findOne"]
    /\ UNCHANGED <<projects, versions, now, calls>>

ListCollectionsFails ==
    /\ mongo.pc = "listCollections"
    /\ mongo' = Rejected(mongo, "ListError")
    /\ UNCHANGED <<projects, versions, now, calls>>

\* await db.collection(name).findOne({}) resolves for the next collection
\* and its node is pushed; after the last one comes the return
FindOne(sample) ==
    /\ mongo.pc = "findOne"
    /\ mongo' =
         LET name == mongo.collections[Len(mongo.nodes) + 1]
             pushed == PushNode(mongo, name, sample)
         IN IF Len(pushed.nodes) = Len(mongo.collections)
            THEN Returning(pushed)
            ELSE pushed
    /\ UNCHANGED <<projects, versions, now, calls>>

FindOneFails ==
    /\ mongo.pc = "findOne"
    /\ mongo' = Rejected(mongo, "SampleError")
    /\ UNCHANGED <<projects, versions, now, calls>>

\* finally { await client.close() }: when close resolves the pending return
\* or error completes the call, when it rejects its error does
Close(ok) ==
    /\ mongo.pc = "close"
    /\ mongo' = [mongo EXCEPT
                    !.closes = mongo.closes + 1,
                    !.pc = "done",
                    !.outcome = IF ~ok THEN "CloseError"
                                ELSE IF mongo.completion = "return"
                                     THEN "returned"
                                ELSE mongo.completion]
    /\ UNCHANGED <<projects, versions, now, calls>>

(***************************************************************************)
(* IntrospectSpec: MongoIntrospector.introspect, each awaited driver call  *)
(* resolving or rejecting.                                                 *)
(***************************************************************************)
CollectionNames == {CharsUsers, CharsPosts, CharsOrders, CharsIdentity}

\* the sequences without repetition of at most n of the names
ListsOf(names, n) ==
    {cols \in UNION {[1..k -> names] : k \in 0..n} :
        \A i, j \in DOMAIN cols : i # j => cols[i] # cols[j]}

\* what db.listCollections().toArray() may resolve to
CollectionLists == ListsOf(CollectionNames, MaxCollections)

\* what findOne({}) may resolve to
Samples == {NoSample, << <<Chars_id, ObjectIdValue>>, <<CharsName, JStr("x")>> >>}

IntrospectNext ==
    \/ introspect
    \/ \E ok \in BOOLEAN : Connect(ok)
    \/ \E collections \in CollectionLists : ListCollections(collections)
    \/ ListCollectionsFails
    \/ \E sample \in Samples : FindOne(sample)
    \/ FindOneFails
    \/ \E ok \in BOOLEAN : Close(ok)

IntrospectSpec == Init /\ [][IntrospectNext]_vars

(***************************************************************************)
(* InferSpec: introspection of databases whose collection and field names  *)
(* follow, or nearly follow, the reference naming convention.              *)
(***************************************************************************)
InferLabels == {CharsUsers, CharsUser, CharsUpperUsers, CharsIdentity}

InferSamples ==
    {NoSample,
     << <<Chars_id, ObjectIdValue>>, <<CharsUserId, ObjectIdValue>> >>,
     << <<CharsName, JStr("x")>>, <<Chars_id, ObjectIdValue>> >>,
     << <<CharsIdentityId, JNum(1)>> >>,
     << <<CharsUserId, JStr("u1")>>, <<CharsIdentityId, JNull>> >>,
     << <<CharsId, DateValue>>, <<CharsName, JArr(<<>>)>> >>}

InferNext ==
    \/ introspect
    \/ \E ok \in BOOLEAN : Connect(ok)
    \/ \E collections \in ListsOf(InferLabels, MaxInferCollections) :
            ListCollections(collections)
    \/ ListCollectionsFails
    \/ \E sample \in InferSamples : FindOne(sample)
    \/ FindOneFails
    \/ \E ok \in BOOLEAN : Close(ok)

InferSpec == Init /\ [][InferNext]_vars

(***************************************************************************)
(* LayoutSpec: introspection of databases with enough collections for the  *)
(* layout cursor to wrap.                                                  *)
(***************************************************************************)
\* the collections 'c1', 'c2', ... in the order the database lists them
LayoutCollections(n) == [i \in 1..n |-> <<"c", ToString(i)>>]

LayoutNext ==
    \/ introspect
    \/ \E ok \in BOOLEAN : Connect(ok)
    \/ \E n \in 0..MaxLayoutCollections :
            ListCollections(LayoutCollections(n))
    \/ ListCollectionsFails
    \/ \E sample \in Samples : FindOne(sample)
    \/ FindOneFails
    \/ \E ok \in BOOLEAN : Close(ok)

LayoutSpec == Init /\ [][LayoutNext]_vars

(***************************************************************************)
(* Properties.                                                             *)
(***************************************************************************)
\* caller c takes the step that leaves program point pc
Leaves(c, pc) == calls[c].pc = pc /\ calls'[c] # calls[c]

\* caller c commits its write in this step
Commits(c) == Leaves(c, "update")

\* C1: of two saves of one project that passed the same expectedVersion,
\* never both succeed (one wins, the other gets Conflict).
C1_OneWinnerPerVersion ==
    \A c, d \in Callers :
        (/\ c # d
         /\ calls[c].result = "ok"
         /\ calls[d].result = "ok"
         /\ calls[c].projectId = calls[d].projectId
         /\ calls[c].expectedVersion # Undefined)
        => calls[c].expectedVersion # calls[d].expectedVersion

\* C2: a save whose supplied expectedVersion differs from the stored version
\* at its read fails with Conflict and changes neither the project nor the
\* snapshots.
C2_StaleSaveConflicts ==
    [][\A c \in Callers :
          (/\ Leaves(c, "findUnique")
           /\ calls[c].projectId \in DOMAIN projects
           /\ calls[c].expectedVersion # Undefined
           /\ projects[calls[c].projectId].version # calls[c].expectedVersion)
          => (/\ calls'[c].pc = "done"
              /\ calls'[c].result = "Conflict"
              /\ projects' = projects
              /\ versions' = versions)]_vars

C2_Witness ==
    \E c \in Callers : calls[c].pc = "done" /\ calls[c].result = "Conflict"

C4_SnapshotHoldsReplacedState ==
    [][\A c \in Callers :
          (Commits(c) /\ calls[c].created # 0)
          => versions[calls[c].created].content
               = projects[calls[c].projectId].content]_vars

\* C5: a save without forceSnapshot whose content is identical to the stored
\* content it read goes to its write without querying the snapshot history
\* and without creating a snapshot.
C5_IdenticalSaveSkipsHistory ==
    \A c \in Callers :
        (/\ calls[c].pc = "update"
         /\ ~calls[c].forceSnapshot
         /\ calls[c].content = calls[c].current.content)
        => calls[c].lastVersion = NotQueried /\ calls[c].created = 0

C5_Witness ==
    \E c \in Callers :
        /\ calls[c].pc = "update"
        /\ calls[c].op = "save"
        /\ ~calls[c].forceSnapshot
        /\ calls[c].content = calls[c].current.content
        /\ projects[calls[c].projectId].version >= 1

\* C6 as claimed: whatever the forceSnapshot flag, a save whose content has
\* the fingerprint of the stored content creates no snapshot.
C6_EqualFingerprintNoSnapshot ==
    \A c \in Callers :
        (/\ calls[c].pc = "update"
         /\ createHash(calls[c].content)
              = createHash(calls[c].current.content))
        => calls[c].created = 0

\* C6 as amended: a save whose content has the fingerprint of the stored
\* content creates no snapshot when forceSnapshot is false, and creates one
\* when forceSnapshot is true (as in the save restoreVersion issues).
C6_EqualFingerprintSnapshotIffForced ==
    \A c \in Callers :
        (/\ calls[c].pc = "update"
         /\ createHash(calls[c].content)
              = createHash(calls[c].current.content))
        => (calls[c].created # 0 <=> calls[c].forceSnapshot)

\* a restore of a snapshot whose content the project already holds made its
\* backup within the window of an unforced snapshot
C6_Witness ==
    \E c \in Callers :
        /\ calls[c].pc = "update"
        /\ calls[c].op = "restore"
        /\ createHash(calls[c].content) = createHash(calls[c].current.content)
        /\ calls[c].created # 0
        /\ calls[c].lastVersion \in 1..Len(versions)
        /\ versions[calls[c].lastVersion].description = "Auto-save (Smart)"
        /\ versions[calls[c].created].createdAt
             - versions[calls[c].lastVersion].createdAt <= FIVE_MINUTES

\* C7: a save goes on to the snapshot decision exactly when the fingerprints
\* differ or forceSnapshot is set, decides to create exactly when it is
\* forced, the project has no snapshot, or more than 5 minutes passed since
\* the project's most recent snapshot, and then inserts exactly one snapshot;
\* nothing else inserts one.
C7_SnapshotExactlyWhen ==
    [][/\ \A c \in Callers :
            LET call == calls[c]
                p == call.projectId
            IN /\ (Leaves(c, "findUnique") /\ calls'[c].pc # "done")
                  => calls'[c].pc =
                       IF \/ createHash(projects[p].content)
                               # createHash(call.content)
                          \/ call.forceSnapshot
                       THEN "findFirst" ELSE "update"
               /\ Leaves(c, "findFirst")
                  => calls'[c].pc =
                       IF \/ call.forceSnapshot
                          \/ VersionsOf(p) = {}
                          \/ \A i \in VersionsOf(p) :
                               now - versions[i].createdAt > FIVE_MINUTES
                       THEN "create" ELSE "update"
               /\ Leaves(c, "create")
                  => /\ calls'[c].pc = "update"
                     /\ Len(versions') = Len(versions) + 1
       /\ versions' # versions => \E c \in Callers : Leaves(c, "create")]_vars

\* a changed, unforced save decided 5 minutes or less after the last snapshot
\* and went to its write without creating one, and another one created one
C7_Witness ==
    /\ Len(versions) >= 2
    /\ \E c \in Callers :
        /\ calls[c].pc = "update"
        /\ ~calls[c].forceSnapshot
        /\ calls[c].lastVersion \in 1..Len(versions)
        /\ calls[c].created = 0
        /\ now - versions[calls[c].lastVersion].createdAt = FIVE_MINUTES

\* C8: a snapshot created by a forced save is described 'Backup before
\* Restore', one created by an unforced save 'Auto-save (Smart)', and a
\* forced save reaches its write only with a snapshot created.
C8_DescriptionFollowsForce ==
    \A c \in Callers :
        LET call == calls[c]
        IN /\ (call.pc = "update" /\ call.created # 0)
              => versions[call.created].description
                   = IF call.forceSnapshot THEN "Backup before Restore"
                     ELSE "Auto-save (Smart)"
           /\ (call.pc = "update" /\ call.forceSnapshot) => call.created # 0

\* a forced save created its snapshot at the instant of the previous one
C8_Witness ==
    \E c \in Callers :
        /\ calls[c].pc = "update"
        /\ calls[c].forceSnapshot
        /\ calls[c].created # 0
        /\ calls[c].lastVersion \in 1..Len(versions)
        /\ versions[calls[c].lastVersion].createdAt
             = versions[calls[c].created].createdAt
        /\ \E i \in 1..Len(versions) :
             versions[i].description = "Auto-save (Smart)"

\* C9: in a chain of successful saves from version 0, each with changed
\* content and each more than the window after the last snapshot, the i-th
\* commit leaves version i and i snapshots, the i-th created by that save
\* and holding the content the commit replaces; no snapshot changes later.
C9_ChainSnapshotsEverySave ==
    [][/\ \A c \in Callers :
            LET p == calls[c].projectId
            IN Commits(c)
               => /\ Cardinality(VersionsOf(p)) = projects'[p].version
                  /\ calls[c].created \in VersionsOf(p)
                  /\ \A i \in VersionsOf(p) : i <= calls[c].created
                  /\ versions[calls[c].created].content = projects[p].content
       /\ \A i \in 1..Len(versions) :
            i <= Len(versions') /\ versions'[i] = versions[i]]_vars

C9_Witness ==
    /\ Quiet
    /\ \E p \in DOMAIN projects :
        /\ projects[p].version = 3
        /\ Cardinality(VersionsOf(p)) = 3
        /\ \E i \in VersionsOf(p) :
             versions[i].description = "Auto-save (Smart)"

\* C10: when a restore runs alone, its save decides for a snapshot, inserts
\* exactly one, of this project and holding the content stored before the
\* restore, and its commit stores the content of the named snapshot.
C10_RestoreYieldsSnapshotContent ==
    [][\A c \in Callers :
          LET call == calls[c]
              p == call.projectId
          IN call.op = "restore"
             => /\ Leaves(c, "findFirst") => calls'[c].pc = "create"
                /\ Leaves(c, "create")
                   => /\ versions' = Append(versions, versions'[Len(versions')])
                      /\ versions'[Len(versions')].projectId = p
                      /\ versions'[Len(versions')].content = projects[p].content
                /\ (call.pc # "create" /\ calls'[c] # call)
                   => versions' = versions
                /\ Commits(c)
                   => /\ calls'[c].result = "ok"
                      /\ call.created # 0
                      /\ projects'[p].content = versions[call.versionId].content
                      /\ versions[call.created].content = projects[p].content
                /\ (call.pc # "update" /\ calls'[c] # call)
                   => projects' = projects]_vars

C10_Witness ==
    \E c \in Callers :
        /\ calls[c].pc = "done"
        /\ calls[c].op = "restore"
        /\ calls[c].result = "ok"
        /\ projects[calls[c].projectId].content
             = versions[calls[c].versionId].content
        /\ versions[Len(versions)].description = "Backup before Restore"
        /\ versions[Len(versions)].content
             # versions[calls[c].versionId].content

\* C11: a restore naming a snapshot that does not exist ends with NotFound,
\* one naming a snapshot of another project ends with BadRequest, either
\* without changing any project or snapshot; a restore commits only content
\* of a snapshot of its own project.
C11_RestoreRejectsForeignSnapshot ==
    [][\A c \in Callers :
          LET call == calls[c]
              v == call.versionId
          IN /\ (Leaves(c, "findVersion") /\ v \notin 1..Len(versions))
                => /\ calls'[c].pc = "done"
                   /\ calls'[c].result = "NotFound"
                   /\ projects' = projects
                   /\ versions' = versions
             /\ (/\ Leaves(c, "findVersion")
                 /\ v \in 1..Len(versions)
                 /\ versions[v].projectId # call.projectId)
                => /\ calls'[c].pc = "done"
                   /\ calls'[c].result = "BadRequest"
                   /\ projects' = projects
                   /\ versions' = versions
             /\ (Commits(c) /\ call.op = "restore")
                => /\ versions[v].projectId = call.projectId
                   /\ \A q \in DOMAIN projects :
                        q # call.projectId => projects'[q] = projects[q]]_vars

\* a restore was refused with BadRequest while both projects exist and hold
\* snapshots
C11_Witness ==
    /\ \E c \in Callers : calls[c].pc = "done" /\ calls[c].result = "BadRequest"
    /\ \A p \in Projects : p \in DOMAIN projects /\ VersionsOf(p) # {}

\* C12: snapshots are append-only: whatever createProject, saveDiagram,
\* restoreVersion and getVersions do, every snapshot that exists stays in
\* place with its projectId, content, description and createdAt.
C12_SnapshotsAppendOnly ==
    [][/\ Len(versions') >= Len(versions)
       /\ \A i \in 1..Len(versions) :
            /\ versions'[i].projectId = versions[i].projectId
            /\ versions'[i].content = versions[i].content
            /\ versions'[i].description = versions[i].description
            /\ versions'[i].createdAt = versions[i].createdAt]_vars

\* both projects were saved and restored, and the snapshots of one were
\* listed after its second snapshot was created
C12_Witness ==
    /\ \A p \in Projects : Cardinality(VersionsOf(p)) = 2
    /\ \E c \in Callers :
         /\ calls[c].op = "getVersions"
         /\ Len(calls[c].listed) = 2

RECURSIVE HasDenylistedKey(_)
\* some object inside v, at any depth, has a member named like a denylisted
\* structural name
HasDenylistedKey(v) ==
    IF v.t = "obj"
    THEN \E i \in DOMAIN v.kv :
            \/ v.kv[i][1] \in {"__proto__", "constructor", "prototype"}
            \/ HasDenylistedKey(v.kv[i][2])
    ELSE IF v.t = "arr"
    THEN \E i \in DOMAIN v.items : HasDenylistedKey(v.items[i])
    ELSE FALSE

\* C13: whenever validateDiagram is applied, alone or by saveDiagram, to a
\* content holding a denylisted key at any depth, it fails with a validation
\* error, the save ends there and leaves projects and snapshots unchanged;
\* no call goes on with such a content.
C13_DenylistedKeyRejected ==
    [][\A c \in Callers :
          (calls'[c] # calls[c] /\ HasDenylistedKey(calls'[c].content))
          => /\ calls'[c].pc = "done"
             /\ calls'[c].result = "ValidationError"
             /\ projects' = projects
             /\ versions' = versions]_vars

\* a save was rejected for a key nested under an array in an object in an
\* element of nodes, while the project exists
C13_Witness ==
    /\ DOMAIN projects # {}
    /\ \E c \in Callers, k \in {"__proto__", "constructor", "prototype"} :
         /\ calls[c].pc = "done"
         /\ calls[c].op = "none"
         /\ calls[c].result = "ValidationError"
         /\ calls[c].content =
              JObj(<< <<"nodes", JArr(<<JObj(<< <<"data",
                          JArr(<<JObj(<< <<k, JNum(1)>> >>)>>)>> >>)>>)>>,
                      <<"edges", JArr(<<>>)>> >>)

\* C14 as claimed: validateDiagram fails for every content whose root is not
\* an object (arrays, strings, numbers, booleans, null), and no project's
\* stored content has such a root.
C14_NonObjectRootRejected ==
    /\ \A c \in Callers :
         (calls[c].op = "validate" /\ calls[c].content.t # "obj")
         => calls[c].result = "ValidationError"
    /\ \A p \in DOMAIN projects : projects[p].content.t = "obj"

\* the falsy values of JavaScript among the JSON values
IsFalsy(v) ==
    \/ v.t = "null"
    \/ v.t = "bool" /\ v.b = FALSE
    \/ v.t = "num" /\ v.n = 0
    \/ v.t = "str" /\ v.s = ""

\* C14 as amended: validateDiagram fails for every truthy content whose root
\* is not an object (arrays, non-empty strings, non-zero numbers, true) and
\* accepts the falsy roots null, false, 0 and ''; a save never goes on with a
\* truthy content whose root is not an object, and no such value is stored.
C14_TruthyNonObjectRootRejected ==
    /\ \A c \in Callers :
         LET call == calls[c]
         IN /\ (/\ call.op = "validate"
                /\ call.content.t # "obj"
                /\ ~IsFalsy(call.content))
               => call.result = "ValidationError"
            /\ (call.op = "validate" /\ IsFalsy(call.content))
               => call.result = "ok"
            /\ (call.content.t # "obj" /\ ~IsFalsy(call.content))
               => call.pc = "done" /\ call.result = "ValidationError"
    /\ \A p \in DOMAIN projects :
         projects[p].content.t = "obj" \/ IsFalsy(projects[p].content)
    /\ \A i \in 1..Len(versions) :
         versions[i].content.t = "obj" \/ IsFalsy(versions[i].content)

\* a save of an array was rejected after a save of an object was stored
C14_Witness ==
    /\ \E p \in DOMAIN projects : projects[p].version = 1
    /\ \E c \in Callers :
         /\ calls[c].pc = "done"
         /\ calls[c].op = "none"
         /\ calls[c].content = JArr(<<EmptyDiagram>>)
         /\ calls[c].result = "ValidationError"

\* C15: validateDiagram fails for every object content in which the member
\* nodes or the member edges is present with a value that is not an array,
\* whatever that value is (null, false, 0 and '' included).
C15_NonArrayFieldRejected ==
    \A c \in Callers :
        LET json == calls[c].content
        IN (/\ calls[c].op = "validate"
            /\ json.t = "obj"
            /\ \E i \in DOMAIN json.kv :
                 /\ json.kv[i][1] \in {"nodes", "edges"}
                 /\ json.kv[i][2].t # "arr")
           => calls[c].result = "ValidationError"

\* the names of the members of object v
KeysOf(v) == {v.kv[i][1] : i \in DOMAIN v.kv}

\* the value of member k of object v
ValueOf(v, k) == v.kv[CHOOSE i \in DOMAIN v.kv : v.kv[i][1] = k][2]

RECURSIVE StructurallyEqual(_, _)
\* same keys with the same values at every level, whatever the order of keys
StructurallyEqual(a, b) ==
    /\ a.t = b.t
    /\ CASE a.t = "obj" ->
               /\ KeysOf(a) = KeysOf(b)
               /\ \A k \in KeysOf(a) :
                    StructurallyEqual(ValueOf(a, k), ValueOf(b, k))
          [] a.t = "arr" ->
               /\ Len(a.items) = Len(b.items)
               /\ \A i \in DOMAIN a.items :
                    StructurallyEqual(a.items[i], b.items[i])
          [] OTHER -> a = b

\* C16: a save whose content is structurally identical to the stored content
\* it read, whatever the order of the object keys, computes the fingerprint
\* of the stored content and is treated as a no-op change: unless forced it
\* goes to its write without a snapshot query and without a snapshot.
C16_FingerprintIgnoresKeyOrder ==
    \A c \in Callers :
        LET call == calls[c]
        IN (/\ call.pc \in {"findFirst", "create", "update"}
            /\ StructurallyEqual(call.content, call.current.content))
           => /\ createHash(call.content) = createHash(call.current.content)
              /\ ~call.forceSnapshot
                 => /\ call.pc = "update"
                    /\ call.lastVersion = NotQueried
                    /\ call.created = 0

\* C17: a failure of the audit collaborator never fails the core operation:
\* no createProject, restoreVersion or importMysql ends with the failure of
\* its audit write as its outcome.
C17_AuditFailureNeverFailsCall ==
    \A c \in Callers : calls[c].result # "AuditError"

\* C18: every introspect invocation calls client.close exactly once before
\* it finishes, on success and on a failed connect, listing or sampling:
\* while the call runs nothing was closed and nothing returned or thrown,
\* and a finished call has closed once.
C18_ClientClosedExactlyOnce ==
    /\ mongo.pc \in {"connect", "listCollections", "findOne", "close"}
       => mongo.closes = 0 /\ mongo.outcome = "none"
    /\ mongo.pc = "done" => mongo.closes = 1 /\ mongo.outcome # "none"

\* a call that failed while sampling its second collection finished with
\* the client closed
C18_Witness ==
    /\ mongo.pc = "done"
    /\ mongo.completion = "SampleError"
    /\ Len(mongo.nodes) = 1
    /\ mongo.closes = 1

\* C19: when introspection fails with an error and closing the connection
\* fails too, the caller gets the introspection error, not the close error.
C19_OriginalErrorSurfaces ==
    (mongo.pc = "done" /\ mongo.completion \notin {"none", "return"})
    => mongo.outcome = mongo.completion

\* C20: when introspection reached its return and only the close fails, the
\* call still returns the inferred diagram.
C20_CloseFailureKeepsResult ==
    (mongo.pc = "done" /\ mongo.completion = "return")
    => mongo.outcome = "returned"

\* C21: every edge of an introspection has a source and a target that are
\* ids of nodes of the same introspection: no edge dangles.
C21_NoDanglingEdge ==
    \A e \in DOMAIN mongo.edges :
        /\ \E i \in DOMAIN mongo.nodes :
             mongo.nodes[i].id = mongo.edges[e].source
        /\ \E k \in DOMAIN mongo.nodes :
             mongo.nodes[k].id = mongo.edges[e].target

\* an introspection returned two edges, one of them between two nodes
C21_Witness ==
    /\ mongo.pc = "done"
    /\ mongo.outcome = "returned"
    /\ Len(mongo.edges) = 2
    /\ \E e \in DOMAIN mongo.edges :
         mongo.edges[e].source # mongo.edges[e].target

\* the candidate base name of a reference-like field name: the name without
\* its trailing 'Id', lowercased
CandidateBase(name) == toLowerCase(SubSeq(name, 1, Len(name) - 2))

\* field j of node i produces an edge: its name ends in 'Id', is not '_id',
\* and some node is labeled with its candidate base name or that name
\* followed by 's'
ProducesEdge(nodes, i, j) ==
    LET name == nodes[i].fields[j].name
    IN /\ Len(name) >= 2
       /\ SubSeq(name, Len(name) - 1, Len(name)) = <<"I", "d">>
       /\ name # <<"_", "i", "d">>
       /\ \E k \in DOMAIN nodes :
            \/ nodes[k].label = CandidateBase(name)
            \/ nodes[k].label = CandidateBase(name) \o <<"s">>

\* C22: in a returned diagram every node has as many edges as it has fields
\* that produce one, and each of its edges goes to a node labeled with the
\* candidate base name, or that name followed by 's', of such a field; in
\* particular 'userId' gives an edge to 'users' or 'user' when such a node
\* exists and none otherwise.
C22_EdgeIffFieldMatches ==
    mongo.outcome = "returned"
    => \A i \in DOMAIN mongo.nodes :
          LET nodes == mongo.nodes
              out == {e \in DOMAIN mongo.edges :
                         mongo.edges[e].source = nodes[i].id}
              refs == {j \in DOMAIN nodes[i].fields : ProducesEdge(nodes, i, j)}
          IN /\ Cardinality(out) = Cardinality(refs)
             /\ \A e \in out :
                  \E j \in refs, k \in DOMAIN nodes :
                      /\ nodes[k].id = mongo.edges[e].target
                      /\ \/ nodes[k].label
                              = CandidateBase(nodes[i].fields[j].name)
                         \/ nodes[k].label
                              = CandidateBase(nodes[i].fields[j].name)
                                  \o <<"s">>

\* C23: for every field whose name ends in 'Id' and is not '_id', the base
\* name used for matching is the name without that trailing 'Id',
\* lowercased ('IdentityId' gives 'identity').
C23_BaseNameStripsSuffix ==
    \A i \in DOMAIN mongo.nodes :
        \A j \in DOMAIN mongo.nodes[i].fields :
            LET field == mongo.nodes[i].fields[j]
            IN IsReference(field) => BaseName(field) = CandidateBase(field.name)

\* C24: every node has exactly one field named '_id', it is the first one,
\* primary key and not nullable, whatever the sample was; every other field
\* of the node is nullable and not primary key.
C24_IdentityFieldFirstAndOnly ==
    \A i \in DOMAIN mongo.nodes :
        LET fields == mongo.nodes[i].fields
        IN /\ Len(fields) >= 1
           /\ fields[1].name = <<"_", "i", "d">>
           /\ fields[1].isPrimaryKey
           /\ ~fields[1].isNullable
           /\ \A j \in 2..Len(fields) :
                /\ fields[j].name # <<"_", "i", "d">>
                /\ fields[j].isNullable
                /\ ~fields[j].isPrimaryKey

\* a diagram was returned with a node of an empty collection and a node
\* whose sample listed '_id' after another key
C24_Witness ==
    /\ mongo.outcome = "returned"
    /\ \E i, k \in DOMAIN mongo.nodes :
         /\ Len(mongo.nodes[i].fields) = 1
         /\ Len(mongo.nodes[k].fields) = 2
         /\ mongo.nodes[k].fields[2].name = <<"n", "a", "m", "e">>

\* C25: introspecting a database without collections returns a diagram with
\* no node and no edge, the connection closed.
C25_NoCollectionsEmptyDiagram ==
    (/\ mongo.pc = "done"
     /\ mongo.completion = "return"
     /\ mongo.collections = <<>>)
    => /\ mongo.outcome = "returned"
       /\ mongo.nodes = <<>>
       /\ mongo.edges = <<>>
       /\ mongo.closes = 1

\* C26: the i-th node, counting from 0 in enumeration order, lies at
\* x = 100 + 350 * (i mod 3) and y = 100 + 400 * (i div 3), and no two nodes
\* share a position.
C26_GridLayout ==
    /\ \A i \in DOMAIN mongo.nodes :
         mongo.nodes[i].position =
             [x |-> 100 + 350 * ((i - 1) % 3), y |-> 100 + 400 * ((i - 1) \div 3)]
    /\ \A i, k \in DOMAIN mongo.nodes :
         i # k => mongo.nodes[i].position # mongo.nodes[k].position

\* a diagram of seven nodes was returned: the cursor wrapped twice
C26_Witness ==
    /\ mongo.outcome = "returned"
    /\ Len(mongo.nodes) = 7
    /\ mongo.nodes[7].position = [x |-> 100, y |-> 900]

SnapshotsOf(p, vs) == SelectSeq(vs, LAMBDA v : v.projectId = p)

\* whether a save of p at instant dateNow takes a snapshot, from p's own
\* snapshots alone
OwnThrottle(p, forceSnapshot, dateNow) ==
    \/ forceSnapshot
    \/ VersionsOf(p) = {}
    \/ \A i \in VersionsOf(p) : dateNow - versions[i].createdAt > FIVE_MINUTES

\* C28: a step of saveDiagram or restoreVersion on one project leaves the
\* row and the snapshots of every other project unchanged, in every
\* interleaving, and the throttling decision for a project is determined by
\* that project's own snapshots.
C28_OtherProjectsUntouched ==
    [][\A c \in Callers :
        /\ \A q \in Projects :
             (/\ calls'[c] # calls[c]
              /\ calls[c].projectId # q
              /\ calls'[c].projectId # q)
             => /\ (q \in DOMAIN projects) = (q \in DOMAIN projects')
                /\ q \in DOMAIN projects => projects'[q] = projects[q]
                /\ SnapshotsOf(q, versions') = SnapshotsOf(q, versions)
        /\ Leaves(c, "findFirst")
           => (calls'[c].pc = "create")
              = OwnThrottle(calls[c].projectId, calls[c].forceSnapshot, now)]_vars

\* the two callers are about to write different projects, each project has
\* a snapshot, and one of the two saves was throttled by its project's
\* snapshot
C28_Witness ==
    /\ calls["c1"].pc = "update"
    /\ calls["c2"].pc = "update"
    /\ calls["c1"].projectId # calls["c2"].projectId
    /\ \A p \in Projects : VersionsOf(p) # {}
    /\ \E c \in Callers :
         /\ calls[c].lastVersion \notin {NotQueried, NoVersion}
         /\ calls[c].created = 0

\* the result of a getVersions call that ends in this step: snapshots of its
\* project only, most recent first, those at ranks (page - 1) * limit to
\* page * limit - 1 of that order, and meta.total the number of the
\* project's snapshots
GetVersionsPage(c) ==
    LET call == calls'[c]
        own == VersionsOf(call.projectId)
        first == (call.meta.page - 1) * call.meta.limit
        last == call.meta.page * call.meta.limit
        held == IF first >= Cardinality(own) THEN 0
                ELSE IF last > Cardinality(own) THEN Cardinality(own) - first
                ELSE call.meta.limit
        Newer(v) == {w \in own : versions[w].createdAt > versions[v].createdAt}
        NotOlder(v) == {w \in own \ {v} :
                           versions[w].createdAt >= versions[v].createdAt}
    IN (calls'[c] # calls[c] /\ call.op = "getVersions")
       => /\ \A i \in DOMAIN call.listed : call.listed[i] \in own
          /\ \A i, j \in DOMAIN call.listed :
                i < j => versions[call.listed[i]].createdAt
                             >= versions[call.listed[j]].createdAt
          /\ Len(call.listed) = held
          /\ \A i \in DOMAIN call.listed :
                /\ Cardinality(Newer(call.listed[i])) <= first + i - 1
                /\ Cardinality(NotOlder(call.listed[i])) >= first + i - 1
          /\ call.meta.total = Cardinality(own)
          /\ call.meta.totalPages = Ceil(call.meta.total, call.meta.limit)

\* how often snapshot v occurs in the listing s
Listings(s, v) == Cardinality({i \in DOMAIN s : s[i] = v})

\* pages 1 and 2 of the two pages of a project's snapshots, listed with one
\* limit and with no snapshot written since, hold every snapshot once
PagesPartition ==
    \A c, d \in Callers :
        LET own == VersionsOf(calls[c].projectId)
        IN (/\ calls[c].op = "getVersions"
            /\ calls[d].op = "getVersions"
            /\ calls[c].projectId = calls[d].projectId
            /\ calls[c].meta.limit = calls[d].meta.limit
            /\ calls[c].meta.total = Cardinality(own)
            /\ calls[d].meta.total = Cardinality(own)
            /\ calls[c].meta.totalPages = 2
            /\ calls[c].meta.page = 1
            /\ calls[d].meta.page = 2)
           => \A v \in own :
                Listings(calls[c].listed, v) + Listings(calls[d].listed, v) = 1

\* the one page of a project's snapshots holds every snapshot once
SinglePageComplete ==
    \A c \in Callers :
        LET own == VersionsOf(calls[c].projectId)
        IN (/\ calls[c].op = "getVersions"
            /\ calls[c].meta.total = Cardinality(own)
            /\ calls[c].meta.totalPages = 1
            /\ calls[c].meta.page = 1)
           => \A v \in own : Listings(calls[c].listed, v) = 1

\* C29: getVersions returns only snapshots of its project, most recent
\* first, page p holding those at ranks (p - 1) * limit to p * limit - 1, and
\* meta.total is the number of the project's snapshots; with no write in
\* between, the pages 1..totalPages together hold every snapshot of the
\* project exactly once.
C29_PagesCoverEverySnapshotOnce ==
    /\ [][\A c \in Callers : GetVersionsPage(c)]_vars
    /\ [](SinglePageComplete /\ PagesPartition)

\* every single listing is a page of a most-recent-first order
EachPageRanked == [][\A c \in Callers : GetVersionsPage(c)]_vars

\* C30: restoreVersion makes no optimistic-lock check: no step of it ends in
\* Conflict, whatever the version of the project and however many saves
\* were committed since the snapshot was taken, and its write replaces the
\* stored content by the snapshot's and raises the version by exactly 1.
C30_RestoreNeverConflicts ==
    [][\A c \in Callers :
        (calls[c].op = "restore" /\ calls'[c] # calls[c])
        => /\ calls'[c].result # "Conflict"
           /\ Commits(c)
              => projects'[calls[c].projectId] =
                     [content |-> versions[calls[c].versionId].content,
                      version |-> projects[calls[c].projectId].version + 1]]_vars

\* a restore succeeded on a project that had been saved since the snapshot
\* was taken: the project holds the snapshot's content at version 2 or more
C30_Witness ==
    \E c \in Callers :
        /\ calls[c].pc = "done"
        /\ calls[c].op = "restore"
        /\ calls[c].result = "ok"
        /\ projects[calls[c].projectId].version >= 2
        /\ projects[calls[c].projectId].content =
               versions[calls[c].versionId].content

\* C31: the errors of the save/restore engine reach the HTTP caller of
\* ProjectsController.update and restoreVersion with their own kind:
\* Conflict, NotFound and BadRequest keep their status and code, and a
\* diagram validation failure is never answered as the generic internal
\* error.
C31_ErrorsKeepTheirKind ==
    \A c \in Callers :
        (calls[c].pc = "done" /\ calls[c].response # NoResponse)
        => /\ calls[c].result \in ApiErrors
              => calls[c].response = ApiErrorResponse(calls[c].result)
           /\ calls[c].result = "ValidationError"
              => /\ calls[c].response.status # 500
                 /\ calls[c].response.code # "INTERNAL_ERROR"

\* the part of C31 about the errors thrown as ApiError
ApiErrorsKeepTheirKind ==
    \A c \in Callers :
        (calls[c].pc = "done" /\ calls[c].result \in ApiErrors
           /\ calls[c].response # NoResponse)
        => calls[c].response = ApiErrorResponse(calls[c].result)

\* user u owns project p
IsOwner(u, p) == ProjectUserId(p) = u

\* user u is a member of the team project p belongs to
IsTeamMember(u, p) ==
    [teamId |-> ProjectTeamId(p), userId |-> u] \in TeamTokens

\* C32: getProjectById returns a project only to its owner or to a member
\* of the team the project belongs to; any other user gets no project.
C32_OnlyOwnerOrMemberReads ==
    \A c \in Callers :
        (calls[c].op = "getProjectById" /\ calls[c].result = "ok")
        => \/ IsOwner(calls[c].userId, calls[c].projectId)
           \/ IsTeamMember(calls[c].userId, calls[c].projectId)

\* C33: no step of a saveDiagram or restoreVersion call made with a userId
\* that does not own a project without a team changes that project's
\* content or version or adds a snapshot of it.
C33_NonOwnerNeverWrites ==
    [][\A c \in Callers :
        LET p == calls[c].projectId
        IN (/\ calls'[c] # calls[c]
            /\ calls[c].op \in {"save", "restore"}
            /\ p \in DOMAIN projects
            /\ ~IsOwner(calls[c].userId, p)
            /\ ProjectTeamId(p) = "none")
           => /\ projects'[p] = projects[p]
              /\ SnapshotsOf(p, versions') = SnapshotsOf(p, versions)]_vars

\* C34: once the concurrent saves of a project created at version 0 have
\* all finished, the version is the number of saves that succeeded,
\* whatever the interleaving: no increment is lost.
C34_NoIncrementLost ==
    \A p \in RaceProjects :
        (/\ p \in DOMAIN projects
         /\ \A c \in Callers : calls[c].pc = "done")
        => projects[p].version =
               Cardinality({c \in Callers : calls[c].result = "ok"})

\* two saves that both passed expectedVersion 0, so both read version 0,
\* both succeeded and the version is 2
C34_Witness ==
    /\ \A c \in Callers :
         /\ calls[c].pc = "done"
         /\ calls[c].result = "ok"
         /\ calls[c].expectedVersion = 0
    /\ projects["p1"].version = 2

\* C35: under any interleaving of concurrent non-forced saves of a project,
\* no two 'Auto-save (Smart)' snapshots of the project are created within
\* the 5-minute window of each other; two concurrent saves of a project
\* without snapshots create at most one.
C35_AutoSnapshotsThrottled ==
    \A i, j \in 1..Len(versions) :
        (/\ i < j
         /\ versions[i].projectId = versions[j].projectId
         /\ versions[i].description = "Auto-save (Smart)"
         /\ versions[j].description = "Auto-save (Smart)")
        => versions[j].createdAt - versions[i].createdAt > FIVE_MINUTES

\* C36: a save that commits content identical to the stored content still
\* raises the version by 1, so a save of unchanged content whose read comes
\* after a successful save that passed the same expectedVersion fails with
\* Conflict and changes nothing.
C36_UnchangedSaveStillCounts ==
    [][\A c, d \in Callers :
        /\ (/\ Commits(c)
             /\ calls[c].content = projects[calls[c].projectId].content)
            => projects'[calls[c].projectId].version
                   = projects[calls[c].projectId].version + 1
        /\ (/\ c # d
             /\ calls[c].pc = "done"
             /\ calls[c].op = "save"
             /\ calls[c].result = "ok"
             /\ calls[c].expectedVersion # Undefined
             /\ Leaves(d, "findUnique")
             /\ calls[d].projectId = calls[c].projectId
             /\ calls[d].expectedVersion = calls[c].expectedVersion
             /\ calls[d].content = projects[calls[d].projectId].content)
            => /\ calls'[d].result = "Conflict"
               /\ projects' = projects
               /\ versions' = versions]_vars

\* a save of the unchanged content with expectedVersion 0 succeeded and
\* left version 1; the other caller's save of the same content with
\* expectedVersion 0 is at its read, which rejects it
C36_Witness ==
    \E c, d \in Callers :
        /\ calls[c].pc = "done"
        /\ calls[c].op = "save"
        /\ calls[c].result = "ok"
        /\ calls[c].expectedVersion = 0
        /\ projects[calls[c].projectId] = [content |-> EmptyDiagram, version |-> 1]
        /\ calls[d].pc = "findUnique"
        /\ calls[d].projectId = calls[c].projectId
        /\ calls[d].expectedVersion = 0
        /\ calls[d].content = EmptyDiagram

\* C37: the snapshot insert and the update of one save commit together or
\* not at all: when the update of a save fails, no snapshot created by that
\* call remains, so between calls every snapshot of a project belongs to a
\* committed write.
C37_SnapshotAndUpdateAtomic ==
    \A p \in DOMAIN projects :
        (\A c \in Callers : calls[c].pc \in {"idle", "done"})
        => Cardinality(VersionsOf(p)) <= projects[p].version

\* C38: a VERSION_RESTORED event is emitted only by a restoreVersion call
\* that replaces the project's content: a restore that has failed leaves no
\* VERSION_RESTORED event.
C38_RestoreEventOnlyOnSuccess ==
    \A c \in Callers :
        (calls[c].pc = "done" /\ calls[c].auditEvents # {})
        => calls[c].result = "ok"

\* C39: every change of a project's row made through ProjectsController.update
\* is the commit of a saveDiagram: the content written passed the validator,
\* the version is raised by exactly 1 and the body's version is not written;
\* a body without truthy content changes neither content nor version.
C39_UpdateOnlyThroughSaveDiagram ==
    [][\A p \in DOMAIN projects :
        projects'[p] # projects[p]
        => \E c \in Callers :
             /\ Commits(c)
             /\ calls[c].projectId = p
             /\ validateDiagram(calls[c].content) = "ok"
             /\ projects'[p] = [content |-> calls[c].content,
                                version |-> projects[p].version + 1]]_vars

\* the part of C39 about a body with truthy content: the call that commits
\* was entered by update with body.version as its expectedVersion
TruthyContentGoesThroughSave ==
    [][\A c \in Callers :
        Commits(c)
        => /\ validateDiagram(calls[c].content) = "ok"
           /\ projects'[calls[c].projectId] =
                  [content |-> calls[c].content,
                   version |-> projects[calls[c].projectId].version + 1]]_vars

\* the fields of node i whose name ends in 'Id' other than '_id'
ReferenceFields(i) ==
    {j \in DOMAIN mongo.nodes[i].fields :
        IsReference(mongo.nodes[i].fields[j])}

\* the edges that leave node i
EdgesFrom(i) ==
    {e \in DOMAIN mongo.edges : mongo.edges[e].source = mongo.nodes[i].id}

\* C40: no inferred edge is a self-loop, and each reference-like field of a
\* node produces at most one edge.
C40_NoSelfLoopOneEdgePerField ==
    /\ \A e \in DOMAIN mongo.edges :
         mongo.edges[e].source # mongo.edges[e].target
    /\ \A i \in DOMAIN mongo.nodes :
         Cardinality(EdgesFrom(i)) <= Cardinality(ReferenceFields(i))

\* C40 (amended): each reference-like field of a node produces at most one
\* edge, so no node has more outgoing edges than fields whose name ends in
\* 'Id' other than '_id'; an edge may connect a node to itself.
C40_AtMostOneEdgePerField ==
    \A i \in DOMAIN mongo.nodes :
        Cardinality(EdgesFrom(i)) <= Cardinality(ReferenceFields(i))

\* a diagram was returned in which the field 'userId' of a collection gave
\* an edge from its node to itself, while two nodes matched that field
C40_Witness ==
    /\ mongo.outcome = "returned"
    /\ \E e \in DOMAIN mongo.edges :
         mongo.edges[e].source = mongo.edges[e].target
    /\ \E i \in DOMAIN mongo.nodes :
         \E j \in ReferenceFields(i) :
            Cardinality(Matches(mongo.nodes, BaseName(mongo.nodes[i].fields[j]))) = 2
====
